---- MODULE Spec2Model ----
(***************************************************************************)
(* DemoBotNantes.py: a Streamlit chat front-end over the Nantes Metropole  *)
(* parking feeds.  The script is re-executed top to bottom on every user   *)
(* interaction; st.session_state survives between executions.              *)
(*                                                                         *)
(* Text is modelled as a tuple of one-character strings, so that lower()   *)
(* and the substring test "q in s" are computed and not assumed.  A JSON   *)
(* object is a function from its keys to its values, an absent key being   *)
(* absent from the DOMAIN.                                                 *)
(***************************************************************************)
EXTENDS Integers, Sequences, FiniteSets, TLC

VARIABLES
    pc,                \* where the script stands
    trigger,           \* the widget whose interaction started this execution
    session_keys,      \* the keys present in st.session_state
    messages,          \* st.session_state.messages
    parking_data,      \* st.session_state.parking_data
    raw_parking_data,  \* st.session_state.raw_parking_data
    last_update,       \* st.session_state.last_update
    now,               \* datetime.now(), in seconds
    CLAUDE_API_KEY,    \* whether a key is configured
    user_input,        \* the value st.chat_input returned
    ai_response,       \* the value ask_claude or fallback_search returned
    request,           \* "messages" of the payload last posted to the chat API
    remote,            \* how the last call of ask_claude went
    gets,              \* the feeds requested during this execution
    last_success       \* history: the last fetch in which every feed was retrieved

vars == <<pc, trigger, session_keys, messages, parking_data, raw_parking_data,
          last_update, now, CLAUDE_API_KEY, user_input, ai_response, request,
          remote, gets, last_success>>

-----------------------------------------------------------------------------
(* Bounds of the model *)

\* total number of entries over the four feeds of one merge input
MaxEntries == 4
\* number of info entries of a search input
MaxRecords == 6
\* length of the session's message list
MaxMessages == 13
\* the clock stops advancing here
MaxTime == 301

-----------------------------------------------------------------------------
(* Python and JSON values *)

\* JSON null / Python None: a value that is no text (no text holds the
\* four-character element "null")
Null == <<"null">>

\* str(v) as an f-string renders it
Str(v) == IF v = Null THEN <<"N", "o", "n", "e">> ELSE v

\* bool(v) for the texts and null
Truthy(v) == v # Null /\ v # <<>>

\* dict.get(key, default)
Get(d, key, default) == IF key \in DOMAIN d THEN d[key] ELSE default

LowerChar(c) ==
    CASE c = "P" -> "p"
      [] c = "G" -> "g"
      [] c = "C" -> "c"
      [] c = "A" -> "a"
      [] c = "R" -> "r"
      [] c = "E" -> "e"
      [] OTHER -> c

\* str.lower()
Lower(s) == [i \in 1..Len(s) |-> LowerChar(s[i])]

\* q in s, for two texts
Contains(s, q) ==
    \E i \in 0..(Len(s) - Len(q)) : SubSeq(s, i + 1, i + Len(q)) = q

Max(S) == CHOOSE x \in S : \A y \in S : y <= x
Min(a, b) == IF a <= b THEN a ELSE b

\* a plain text returned in place of data
Text(t) == [kind |-> "text", text |-> t]
\* json.dumps(doc): the text of a JSON document
JsonDumps(doc) == [kind |-> "json", doc |-> doc]
\* json.loads(s) succeeds only on the text of a JSON document
JsonLoadsRaises(s) == s.kind # "json"
JsonLoads(s) == s.doc

-----------------------------------------------------------------------------
(* The texts of the feeds *)

ParkingGare == <<"P","a","r","k","i","n","g"," ","G","a","r","e">>
ParkingCommerce == <<"P","a","r","k","i","n","g"," ","C","o","m","m","e","r","c","e">>
TypePublic == <<"P","a","r","k","i","n","g"," ","p","u","b","l","i","c">>
TypeRelais == <<"P","a","r","c"," ","r","e","l","a","i","s">>
Adresse1 == <<"1"," ","q","u","a","i">>
Horodatage == <<"d","T","h","+","z">>

PARKING_APIS == <<"parkings_disponibilites", "parcs_relais_disponibilites",
                  "parkings_infos", "parcs_relais_infos">>
ApiKeys == {PARKING_APIS[i] : i \in 1..Len(PARKING_APIS)}

-----------------------------------------------------------------------------
(* prepare_parking_data *)

NoDataMessage == Text("Aucune donnee de parking disponible.")

\* faulty variant: the entry is kept on its name alone
ParkingDispoNamed(item) == "grp_nom" \in DOMAIN item

\* parking_dispo: the dict built from the public-lot availability feed; a
\* later entry of the same name overwrites an earlier one
ParkingDispoWellFormed(item) ==
    "grp_nom" \in DOMAIN item /\ "grp_disponible" \in DOMAIN item

ParkingDispoBlock(item) ==
    [places_disponibles   |-> Get(item, "grp_disponible", 0),
     places_totales       |-> Get(item, "grp_exploitation", 0),
     statut               |-> Get(item, "grp_statut", <<>>),
     derniere_mise_a_jour |-> Get(item, "grp_horodatage", <<>>)]

\* faulty variant: the first entry of a name is kept, not the last
parking_dispo_first(feed) ==
    LET wf == {i \in 1..Len(feed) : ParkingDispoWellFormed(feed[i])}
        names == {feed[i]["grp_nom"] : i \in wf}
    IN  [n \in names |->
            ParkingDispoBlock(feed[CHOOSE i \in wf :
                /\ feed[i]["grp_nom"] = n
                /\ \A j \in wf : feed[j]["grp_nom"] = n => i <= j])]

parking_dispo(feed) ==
    LET wf == {i \in 1..Len(feed) : ParkingDispoWellFormed(feed[i])}
        names == {feed[i]["grp_nom"] : i \in wf}
    IN  [n \in names |->
            ParkingDispoBlock(feed[Max({i \in wf : feed[i]["grp_nom"] = n})])]

\* parcs_relais_dispo: the same for the park-and-ride availability feed
RelaisDispoWellFormed(item) ==
    "libelle" \in DOMAIN item /\ "disponible" \in DOMAIN item

RelaisDispoBlock(item) ==
    [places_disponibles   |-> Get(item, "disponible", 0),
     places_totales       |-> Get(item, "capacite", 0),
     derniere_mise_a_jour |-> Get(item, "lastupdate", <<>>)]

parcs_relais_dispo(feed) ==
    LET wf == {i \in 1..Len(feed) : RelaisDispoWellFormed(feed[i])}
        names == {feed[i]["libelle"] : i \in wf}
    IN  [n \in names |->
            RelaisDispoBlock(feed[Max({i \in wf : feed[i]["libelle"] = n})])]

\* "if nom in dispo: parking_info['disponibilite'] = dispo[nom]"
WithDisponibilite(parking_info, dispo) ==
    IF parking_info.nom \in DOMAIN dispo
    THEN parking_info @@ [disponibilite |-> dispo[parking_info.nom]]
    ELSE parking_info

PublicInfo(item) ==
    [nom         |-> Get(item, "nom", <<>>),
     type        |-> TypePublic,
     adresse     |-> Get(item, "adresse", <<>>),
     coordonnees |-> [lat |-> Get(item, "location_lat", <<>>),
                      lon |-> Get(item, "location_lon", <<>>)],
     infos       |-> [tarif_1h                |-> Get(item, "tarif_1h", <<>>),
                      tarif_2h                |-> Get(item, "tarif_2h", <<>>),
                      hauteur_max             |-> Get(item, "hauteur_max", <<>>),
                      nb_pmr                  |-> Get(item, "nb_pmr", <<>>),
                      nb_voitures_electriques |-> Get(item, "nb_voitures_electriques", <<>>),
                      horaires_semaine        |-> Get(item, "horaires_semaine", <<>>),
                      horaires_dimanche       |-> Get(item, "horaires_dimanche", <<>>)]]

RelaisInfo(item) ==
    [nom         |-> Get(item, "libelle", <<>>),
     type        |-> TypeRelais,
     adresse     |-> Get(item, "adresse", <<>>),
     coordonnees |-> [lat |-> Get(Get(item, "geo_point_2d", <<>>), "lat", <<>>),
                      lon |-> Get(Get(item, "geo_point_2d", <<>>), "lon", <<>>)],
     infos       |-> [capacite             |-> Get(item, "capacite", <<>>),
                      nb_pmr               |-> Get(item, "capacite_pmr", <<>>),
                      info_complementaires |-> Get(item, "info_complementaires", <<>>),
                      ligne_tram           |-> Get(item, "ligne_tram", <<>>)]]

\* parkings_complets: one record per info entry, public lots first
parkings_complets(data) ==
    LET pd == parking_dispo(data["parkings_disponibilites"])
        rd == parcs_relais_dispo(data["parcs_relais_disponibilites"])
        pi == data["parkings_infos"]
        ri == data["parcs_relais_infos"]
    IN  [i \in 1..Len(pi) |-> WithDisponibilite(PublicInfo(pi[i]), pd)]
        \o [i \in 1..Len(ri) |-> WithDisponibilite(RelaisInfo(ri[i]), rd)]

prepare_parking_data(data) ==
    IF \A k \in DOMAIN data : data[k] = <<>>
    THEN NoDataMessage
    ELSE JsonDumps(parkings_complets(data))

-----------------------------------------------------------------------------
(* format_parking_info *)

DigitChar(d) ==
    CASE d = 0 -> "0" [] d = 1 -> "1" [] d = 2 -> "2" [] d = 3 -> "3"
      [] d = 4 -> "4" [] d = 5 -> "5" [] d = 6 -> "6" [] d = 7 -> "7"
      [] d = 8 -> "8" [] d = 9 -> "9"

RECURSIVE NatStr(_)
NatStr(n) == IF n < 10 THEN <<DigitChar(n)>>
             ELSE NatStr(n \div 10) \o <<DigitChar(n % 10)>>

\* str(n) for an integer
IntStr(n) == IF n < 0 THEN <<"-">> \o NatStr(0 - n) ELSE NatStr(n)

\* the part of s before the first occurrence of c (s.split(c)[0])
BeforeFirst(s, c) ==
    LET at == {i \in 1..Len(s) : s[i] = c}
    IN  IF at = {} THEN s
        ELSE SubSeq(s, 1, (CHOOSE i \in at : \A j \in at : i <= j) - 1)

\* "Mise a jour" line: written only when the timestamp is a text holding
\* exactly one "T" (the two-name unpacking of split("T") raises otherwise,
\* and the exception is swallowed)
UpdateLines(dispo) ==
    IF "derniere_mise_a_jour" \notin DOMAIN dispo THEN <<>>
    ELSE LET update_time == dispo["derniere_mise_a_jour"]
             at == {i \in 1..Len(update_time) : update_time[i] = "T"}
         IN  IF update_time = Null \/ Cardinality(at) # 1 THEN <<>>
             ELSE LET t == CHOOSE i \in at : TRUE
                      date_str == SubSeq(update_time, 1, t - 1)
                      time_str == SubSeq(update_time, t + 1, Len(update_time))
                  IN  << <<"Mise a jour", date_str, BeforeFirst(time_str, "+")>> >>

\* key.replace("_", " ").capitalize()
KeyDisplay(key) ==
    CASE key = "tarif_1h" -> "Tarif 1h"
      [] key = "tarif_2h" -> "Tarif 2h"
      [] key = "hauteur_max" -> "Hauteur max"
      [] key = "capacite" -> "Capacite"
      [] key = "nb_pmr" -> "Nb pmr"
      [] key = "nb_voitures_electriques" -> "Nb voitures electriques"
      [] key = "horaires_semaine" -> "Horaires semaine"
      [] key = "horaires_dimanche" -> "Horaires dimanche"
      [] key = "info_complementaires" -> "Info complementaires"
      [] key = "ligne_tram" -> "Ligne tram"

\* the order in which the keys of "infos" are inserted, hence iterated
InfoKeyOrder ==
    <<"tarif_1h", "tarif_2h", "hauteur_max", "capacite", "nb_pmr",
      "nb_voitures_electriques", "horaires_semaine", "horaires_dimanche",
      "info_complementaires", "ligne_tram">>

RECURSIVE InfoLines(_, _)
InfoLines(infos, k) ==
    IF k > Len(InfoKeyOrder) THEN <<>>
    ELSE LET key == InfoKeyOrder[k]
         IN  (IF key \in DOMAIN infos /\ Truthy(infos[key])
              THEN << <<KeyDisplay(key), Str(infos[key])>> >>
              ELSE <<>>)
             \o InfoLines(infos, k + 1)

SansNom == <<"P","a","r","k","i","n","g"," ","s","a","n","s"," ","n","o","m">>
NonPrecisee == <<"N","o","n"," ","p","r","e","c","i","s","e","e">>

\* the text written for one parking: its lines, in order
FormatParking(parking) ==
    << <<"###", Str(Get(parking, "nom", SansNom)),
                Str(Get(parking, "type", <<>>))>> >>
    \o (IF "disponibilite" \in DOMAIN parking
        THEN LET dispo == parking["disponibilite"]
             IN  << <<"Disponibilite",
                      IntStr(Get(dispo, "places_disponibles", 0)),
                      IntStr(Get(dispo, "places_totales", 0))>> >>
                 \o UpdateLines(dispo)
        ELSE <<>>)
    \o << <<"Adresse", Str(Get(parking, "adresse", NonPrecisee))>> >>
    \o (IF "infos" \in DOMAIN parking THEN InfoLines(parking["infos"], 1) ELSE <<>>)
    \o << <<"---">> >>

\* formatted_info for a list of parkings: one block of lines per parking
format_parking_info(parking_info) ==
    [kind |-> "markdown",
     blocks |-> [i \in 1..Len(parking_info) |-> FormatParking(parking_info[i])]]

-----------------------------------------------------------------------------
(* fallback_search *)

\* "Limiter a 5 resultats"
ResultLimit == 5

\* "query in nom.lower() or query in adresse.lower() or query in type.lower()"
\* on a record: .lower() of None raises AttributeError, and the "or" stops at
\* the first operand that holds
NomMatches(q, parking) ==
    Contains(Lower(Get(parking, "nom", <<>>)), q)
AdresseMatches(q, parking) ==
    Contains(Lower(Get(parking, "adresse", <<>>)), q)
TypeMatches(q, parking) ==
    Contains(Lower(Get(parking, "type", <<>>)), q)

MatchRaises(q, parking) ==
    \/ Get(parking, "nom", <<>>) = Null
    \/ /\ ~NomMatches(q, parking)
       /\ \/ Get(parking, "adresse", <<>>) = Null
          \/ /\ ~AdresseMatches(q, parking)
             /\ Get(parking, "type", <<>>) = Null

Matches(q, parking) ==
    \/ NomMatches(q, parking)
    \/ AdresseMatches(q, parking)
    \/ TypeMatches(q, parking)

\* the second loop's test
HasPlaces(parking) ==
    /\ "disponibilite" \in DOMAIN parking
    /\ Get(parking["disponibilite"], "places_disponibles", 0) > 0

SearchError(e) == [kind |-> "text", text |-> "Erreur lors de la recherche", error |-> e]
SearchNoData == Text("Aucune donnee de parking disponible pour la recherche.")
SearchNotFound(q) == [kind |-> "text", text |-> "Aucun parking trouve", query |-> q]

\* the first loop: the records matching the query, in feed order
FirstLoop(q, parkings) == SelectSeq(parkings, LAMBDA p : Matches(q, p))

\* faulty variant: the second loop runs whatever the first found
SecondLoopAlways(results, parkings) == results \o SelectSeq(parkings, HasPlaces)

\* the second loop, run only when the first found nothing
SecondLoop(results, parkings) ==
    IF results = <<>> THEN SelectSeq(parkings, HasPlaces) ELSE results

\* results[:5]
Limit(results) == SubSeq(results, 1, Min(ResultLimit, Len(results)))

fallback_search(query, data) ==
    IF JsonLoadsRaises(data) THEN SearchError("JSONDecodeError")
    ELSE LET parkings == JsonLoads(data)
             q == Lower(query)
         IN  IF parkings = <<>> THEN SearchNoData
             ELSE IF \E i \in 1..Len(parkings) : MatchRaises(q, parkings[i])
             THEN SearchError("AttributeError")
             ELSE LET results == SecondLoop(FirstLoop(q, parkings), parkings)
                  IN  IF results = <<>> THEN SearchNotFound(q)
                      ELSE format_parking_info(Limit(results))

-----------------------------------------------------------------------------
(* ask_claude *)

DisabledMessage == Text("Mode IA desactive. Utilisez une recherche par mots-cles a la place.")

\* the remote's answer, when it gives one
RemoteAnswer == Text("response_data['content'][0]['text']")

\* how the POST can end: an answer, or one of the failures the try block catches
RemoteOutcomes == {"answer", "exception", "http_error", "empty_content"}

HistoryWindow == 10

UserMessage(text) == [role |-> "user", content |-> [kind |-> "input", chars |-> text]]
AssistantMessage(content) == [role |-> "assistant", content |-> content]

\* faulty variant: the whole history is sent
LastMessagesAll(history) == history

\* conversation_history[-10:]
LastMessages(history) ==
    IF Len(history) <= HistoryWindow THEN history
    ELSE SubSeq(history, Len(history) - HistoryWindow + 1, Len(history))

\* the "messages" of the payload
BuildMessages(user_query, history) ==
    LET window == LastMessages(history)
    IN  [i \in 1..Len(window) |->
            [role    |-> IF window[i].role = "user" THEN "user" ELSE "assistant",
             content |-> window[i].content]]
        \o <<UserMessage(user_query)>>

\* the value returned, the payload posted and the way the call went, for one
\* outcome of the POST
ask_claude(user_query, data, history, outcome) ==
    IF ~CLAUDE_API_KEY
    THEN [response |-> DisabledMessage, request |-> <<>>, remote |-> "no_key"]
    ELSE [response |-> IF outcome = "answer" THEN RemoteAnswer
                       ELSE fallback_search(user_query, data),
          request  |-> BuildMessages(user_query, history),
          remote   |-> outcome]

-----------------------------------------------------------------------------
(* The feeds the model draws from *)

Restrict(f, D) == [k \in D |-> f[k]]
SeqsUpTo(S, n) == UNION {[1..k -> S] : k \in 0..n}

PublicDispoFull(nom, disponible) ==
    [grp_nom |-> nom, grp_disponible |-> disponible, grp_exploitation |-> 5,
     grp_statut |-> <<"5">>, grp_horodatage |-> Horodatage]
RelaisDispoFull(libelle, disponible) ==
    [libelle |-> libelle, disponible |-> disponible, capacite |-> 7,
     lastupdate |-> Horodatage]
PublicInfoFull(nom, adresse) ==
    [nom |-> nom, adresse |-> adresse, tarif_1h |-> <<"2">>]
RelaisInfoFull(libelle, adresse) ==
    [libelle |-> libelle, adresse |-> adresse, ligne_tram |-> <<"1">>]

\* inputs of the merge: well-formed entries of two names, entries lacking the
\* name or the available-spaces field, a bare entry, an empty name, a null
\* address
MergeItems ==
    [parkings_disponibilites |->
        {PublicDispoFull(ParkingGare, 2), PublicDispoFull(ParkingCommerce, 2),
         Restrict(PublicDispoFull(ParkingGare, 2),
                  {"grp_disponible", "grp_exploitation", "grp_statut", "grp_horodatage"}),
         Restrict(PublicDispoFull(ParkingGare, 2),
                  {"grp_nom", "grp_exploitation", "grp_statut", "grp_horodatage"}),
         Restrict(PublicDispoFull(ParkingCommerce, 2),
                  {"grp_nom", "grp_exploitation", "grp_statut", "grp_horodatage"}),
         Restrict(PublicDispoFull(ParkingGare, 0), {"grp_nom", "grp_disponible"}),
         PublicDispoFull(<<>>, 1)},
     parcs_relais_disponibilites |->
        {RelaisDispoFull(ParkingGare, 3), RelaisDispoFull(ParkingCommerce, 3),
         Restrict(RelaisDispoFull(ParkingGare, 3), {"disponible", "capacite", "lastupdate"}),
         Restrict(RelaisDispoFull(ParkingGare, 3), {"libelle", "capacite", "lastupdate"})},
     parkings_infos |->
        {PublicInfoFull(ParkingGare, Adresse1), PublicInfoFull(ParkingCommerce, Adresse1),
         PublicInfoFull(ParkingGare, Null),
         Restrict(PublicInfoFull(ParkingGare, Adresse1), {"adresse", "tarif_1h"})},
     parcs_relais_infos |->
        {RelaisInfoFull(ParkingGare, Adresse1), RelaisInfoFull(ParkingCommerce, Adresse1),
         Restrict(RelaisInfoFull(ParkingGare, Adresse1), {"adresse"})}]

\* inputs of the search: a few availability feeds, and info entries of few
\* kinds in lists long enough to pass the limit on the results
SearchDispoFeeds ==
    [parkings_disponibilites |->
        {<<>>,
         <<PublicDispoFull(ParkingGare, 0), PublicDispoFull(ParkingCommerce, 4)>>,
         <<PublicDispoFull(ParkingGare, 0), PublicDispoFull(ParkingCommerce, 0 - 1)>>},
     parcs_relais_disponibilites |->
        {<<RelaisDispoFull(ParkingGare, 3)>>}]

SearchInfoItems ==
    [parkings_infos |->
        {PublicInfoFull(ParkingGare, Adresse1), PublicInfoFull(ParkingCommerce, Adresse1),
         PublicInfoFull(ParkingCommerce, Null)},
     parcs_relais_infos |->
        {RelaisInfoFull(ParkingGare, Adresse1)}]

Queries ==
    {<<"g","a","r","e">>, <<"G","A","R","E">>, <<"p","a","r">>,
     <<"q","u","a","i">>, <<"z">>}

\* what the data portal serves during a session
RemoteFeeds ==
    [parkings_disponibilites     |-> <<PublicDispoFull(ParkingGare, 2)>>,
     parcs_relais_disponibilites |-> <<>>,
     parkings_infos              |-> <<PublicInfoFull(ParkingGare, Adresse1),
                                       PublicInfoFull(ParkingCommerce, Adresse1)>>,
     parcs_relais_infos          |-> <<>>]

\* the feeds that fail together in one fetch: none, or the portal is down
FailureSets == {{}, ApiKeys}

SessionQueries == {<<"g","a","r","e">>}

-----------------------------------------------------------------------------
(* fetch_data, fetch_all_parking_data *)

\* fetch_data(url): the "results" of the answer, or [] when the request
\* raises or the answer has not the expected structure
fetch_data(key, failed) == IF key \in failed THEN <<>> ELSE RemoteFeeds[key]

fetch_all_parking_data(failed) == [k \in ApiKeys |-> fetch_data(k, failed)]

-----------------------------------------------------------------------------
(* The script *)

Greeting == Text("Bonjour ! Je suis votre assistant IA pour les parkings de Nantes Metropole.")
ClearedNotice == Text("Conversation effacee. Comment puis-je vous aider ?")

\* faulty variant: the list is initialised on every execution
SessionInitAlways(msgs, keys) == <<AssistantMessage(Greeting)>>

\* the session state initialisation block
SessionInit(msgs, keys) ==
    IF "messages" \notin keys THEN <<AssistantMessage(Greeting)>> ELSE msgs

\* faulty variant: the list is emptied and no notice is appended
ClearedMessagesEmpty == <<>>

\* "messages = []" and the notice appended to it
ClearedMessages == Append(<<>>, AssistantMessage(ClearedNotice))

\* the data is refetched when older than this many seconds
StaleAfter == 300

\* the seconds that pass between two steps
Delays == {300, 301}

Triggers == {"none", "input", "refresh", "clear"}

NoRawData == [k \in ApiKeys |-> <<>>]
NoSuccess == [some |-> FALSE, at |-> 0]

\* the script's own variables do not outlive the execution
LocalsDropped ==
    /\ trigger' = "none"
    /\ user_input' = Null
    /\ ai_response' = Text("")
    /\ request' = <<>>
    /\ remote' = "none"

\* faulty variant: the data is stale from the limit on
StaleAtLimit ==
    \/ "last_update" \notin session_keys
    \/ "parking_data" \notin session_keys
    \/ now - last_update >= StaleAfter

\* the condition of the data loading block
Stale ==
    \/ "last_update" \notin session_keys
    \/ "parking_data" \notin session_keys
    \/ now - last_update > StaleAfter

\* "raw_data = fetch_all_parking_data(); parking_data = prepare_parking_data(
\* raw_data); last_update = datetime.now(); raw_parking_data = raw_data"
FetchAndStore(failed) ==
    LET raw_data == fetch_all_parking_data(failed)
    IN  /\ parking_data' = prepare_parking_data(raw_data)
        /\ last_update' = now
        /\ raw_parking_data' = raw_data
        /\ session_keys' = session_keys \cup {"parking_data", "last_update", "raw_parking_data"}
        /\ gets' = gets \cup ApiKeys
        /\ last_success' = IF failed = {} THEN [some |-> TRUE, at |-> now]
                           ELSE last_success

Init ==
    /\ pc = "idle"
    /\ trigger = "none"
    /\ session_keys = {}
    /\ messages = <<>>
    /\ parking_data = Text("")
    /\ raw_parking_data = NoRawData
    /\ last_update = 0
    /\ now = 0
    /\ CLAUDE_API_KEY \in BOOLEAN
    /\ user_input = Null
    /\ ai_response = Text("")
    /\ request = <<>>
    /\ remote = "none"
    /\ gets = {}
    /\ last_success = NoSuccess

\* An interaction (or st.rerun()) starts the script again; the session state
\* initialisation block runs.  No widget exists before the first execution.
Rerun(widget, text) ==
    /\ pc \in {"idle", "rerun"}
    /\ pc = "rerun" => widget = "none"
    /\ "messages" \notin session_keys => widget = "none"
    /\ widget = "input" => Len(messages) + 2 <= MaxMessages
    /\ trigger' = widget
    /\ user_input' = IF widget = "input" THEN text ELSE Null
    /\ messages' = SessionInit(messages, session_keys)
    /\ session_keys' = session_keys \cup {"messages"}
    /\ ai_response' = Text("")
    /\ request' = <<>>
    /\ remote' = "none"
    /\ gets' = {}
    /\ pc' = "load"
    /\ UNCHANGED <<parking_data, raw_parking_data, last_update, now, CLAUDE_API_KEY,
                   last_success>>

\* the data loading block
LoadData ==
    /\ pc = "load"
    /\ IF Stale
       THEN \E failed \in FailureSets : FetchAndStore(failed)
       ELSE UNCHANGED <<parking_data, last_update, raw_parking_data, session_keys,
                        gets, last_success>>
    /\ pc' = "input"
    /\ UNCHANGED <<trigger, messages, now, CLAUDE_API_KEY, user_input, ai_response,
                   request, remote>>

\* the user input block: the question is appended, ask_claude is called with
\* the list that already holds it, the reply is appended
HandleInput ==
    /\ pc = "input"
    /\ IF user_input # Null /\ user_input # <<>>
       THEN \E outcome \in RemoteOutcomes :
              LET history == Append(messages, UserMessage(user_input))
                  call == ask_claude(user_input, parking_data, history, outcome)
              IN  /\ ai_response' = call.response
                  /\ request' = call.request
                  /\ remote' = call.remote
                  /\ messages' = Append(history, AssistantMessage(call.response))
       ELSE UNCHANGED <<messages, ai_response, request, remote>>
    /\ pc' = "sidebar"
    /\ UNCHANGED <<trigger, session_keys, parking_data, raw_parking_data, last_update,
                   now, CLAUDE_API_KEY, user_input, gets, last_success>>

\* "Rafraichir les donnees"
RefreshButton ==
    /\ pc = "sidebar"
    /\ trigger = "refresh"
    /\ \E failed \in FailureSets : FetchAndStore(failed)
    /\ LocalsDropped
    /\ pc' = "rerun"
    /\ UNCHANGED <<messages, now, CLAUDE_API_KEY>>

\* "Effacer la conversation"
ClearButton ==
    /\ pc = "sidebar"
    /\ trigger = "clear"
    /\ messages' = ClearedMessages
    /\ LocalsDropped
    /\ gets' = {}
    /\ pc' = "rerun"
    /\ UNCHANGED <<session_keys, parking_data, raw_parking_data, last_update, now,
                   CLAUDE_API_KEY, last_success>>

\* no button was pressed: the script runs to its end
EndRun ==
    /\ pc = "sidebar"
    /\ trigger \notin {"refresh", "clear"}
    /\ LocalsDropped
    /\ gets' = {}
    /\ pc' = "idle"
    /\ UNCHANGED <<session_keys, messages, parking_data, raw_parking_data, last_update,
                   now, CLAUDE_API_KEY, last_success>>

\* time passes between two executions
Tick ==
    /\ pc = "idle"
    /\ \E d \in Delays : now + d <= MaxTime /\ now' = now + d
    /\ UNCHANGED <<pc, trigger, session_keys, messages, parking_data, raw_parking_data,
                   last_update, CLAUDE_API_KEY, user_input, ai_response, request,
                   remote, gets, last_success>>

Next ==
    \/ \E widget \in Triggers, text \in SessionQueries : Rerun(widget, text)
    \/ LoadData
    \/ HandleInput
    \/ RefreshButton
    \/ ClearButton
    \/ EndRun
    \/ Tick

Spec == Init /\ [][Next]_vars

-----------------------------------------------------------------------------
(* prepare_parking_data on drawn feeds *)

OutsideSession ==
    /\ trigger = "none"
    /\ session_keys = {}
    /\ messages = <<>>
    /\ last_update = 0
    /\ now = 0
    /\ CLAUDE_API_KEY = FALSE
    /\ user_input = Null
    /\ ai_response = Text("")
    /\ request = <<>>
    /\ remote = "none"
    /\ gets = {}
    /\ last_success = NoSuccess

InitMerge ==
    /\ pc = "merge"
    /\ \E pd \in SeqsUpTo(MergeItems["parkings_disponibilites"], MaxEntries) :
       \E rd \in SeqsUpTo(MergeItems["parcs_relais_disponibilites"], MaxEntries - Len(pd)) :
       \E pi \in SeqsUpTo(MergeItems["parkings_infos"], MaxEntries - Len(pd) - Len(rd)) :
       \E ri \in SeqsUpTo(MergeItems["parcs_relais_infos"],
                          MaxEntries - Len(pd) - Len(rd) - Len(pi)) :
          raw_parking_data = [parkings_disponibilites     |-> pd,
                              parcs_relais_disponibilites |-> rd,
                              parkings_infos              |-> pi,
                              parcs_relais_infos          |-> ri]
    /\ parking_data = Text("")
    /\ OutsideSession

MergeStep ==
    /\ pc = "merge"
    /\ parking_data' = prepare_parking_data(raw_parking_data)
    /\ pc' = "merged"
    /\ UNCHANGED <<trigger, session_keys, messages, raw_parking_data, last_update, now,
                   CLAUDE_API_KEY, user_input, ai_response, request, remote, gets,
                   last_success>>

NextMerge == MergeStep

SpecMerge == InitMerge /\ [][NextMerge]_vars

-----------------------------------------------------------------------------
(* fallback_search on prepared data *)

InitSearch ==
    /\ pc = "search"
    /\ \E pd \in SearchDispoFeeds["parkings_disponibilites"] :
       \E rd \in SearchDispoFeeds["parcs_relais_disponibilites"] :
       \E pi \in SeqsUpTo(SearchInfoItems["parkings_infos"], MaxRecords) :
       \E ri \in SeqsUpTo(SearchInfoItems["parcs_relais_infos"], MaxRecords - Len(pi)) :
          raw_parking_data = [parkings_disponibilites     |-> pd,
                              parcs_relais_disponibilites |-> rd,
                              parkings_infos              |-> pi,
                              parcs_relais_infos          |-> ri]
    /\ parking_data = prepare_parking_data(raw_parking_data)
    /\ OutsideSession

SearchStep ==
    /\ pc = "search"
    /\ \E query \in Queries :
          /\ user_input' = query
          /\ ai_response' = fallback_search(query, parking_data)
    /\ pc' = "searched"
    /\ UNCHANGED <<trigger, session_keys, messages, parking_data, raw_parking_data,
                   last_update, now, CLAUDE_API_KEY, request, remote, gets, last_success>>

NextSearch == SearchStep

SpecSearch == InitSearch /\ [][NextSearch]_vars

-----------------------------------------------------------------------------
(* Vocabulary of the properties, stated on the feeds and not through the   *)
(* operators of the merge                                                  *)

DispoFeedKey(type) ==
    IF type = TypePublic THEN "parkings_disponibilites" ELSE "parcs_relais_disponibilites"
InfoFeedKey(type) ==
    IF type = TypePublic THEN "parkings_infos" ELSE "parcs_relais_infos"
DispoNameField(type) == IF type = TypePublic THEN "grp_nom" ELSE "libelle"
DispoPlacesField(type) == IF type = TypePublic THEN "grp_disponible" ELSE "disponible"
InfoNameField(type) == IF type = TypePublic THEN "nom" ELSE "libelle"
Types == {TypePublic, TypeRelais}

\* the availability entries of a kind that carry the name, in feed order
NamedDispo(raw, type, nom) ==
    LET feed == raw[DispoFeedKey(type)]
    IN  {i \in 1..Len(feed) : /\ DispoNameField(type) \in DOMAIN feed[i]
                              /\ feed[i][DispoNameField(type)] = nom}

\* those of them that also carry their available-spaces field
UsableDispo(raw, type, nom) ==
    {i \in NamedDispo(raw, type, nom) :
        DispoPlacesField(type) \in DOMAIN raw[DispoFeedKey(type)][i]}

\* the info entries of a kind that carry the name; an entry without a name
\* field is named by the empty text
NamedInfo(raw, type, nom) ==
    LET feed == raw[InfoFeedKey(type)]
    IN  {i \in 1..Len(feed) :
            IF InfoNameField(type) \in DOMAIN feed[i]
            THEN feed[i][InfoNameField(type)] = nom
            ELSE nom = <<>>}

FeedNames == {ParkingGare, ParkingCommerce, <<>>}

\* the merged records: none when the merge returned its message
Merged == IF parking_data.kind = "json" THEN parking_data.doc ELSE <<>>

\* the merged records of a name, whatever their kind
MergedNamed(nom) == {i \in 1..Len(Merged) : Merged[i].nom = nom}

HasInfoFields(rec) == {"adresse", "coordonnees", "infos"} \subseteq DOMAIN rec

HasDispoFields(rec) ==
    /\ "disponibilite" \in DOMAIN rec
    /\ {"places_disponibles", "places_totales", "derniere_mise_a_jour"}
          \subseteq DOMAIN rec["disponibilite"]

\* C1 as stated: whenever an availability entry and an info entry of one kind
\* share a name, the merged output holds exactly one record of that name, and
\* it carries the info fields and the availability fields.
C1_OneCombinedRecord ==
    pc = "merged" =>
        \A type \in Types, nom \in FeedNames :
            (NamedDispo(raw_parking_data, type, nom) # {}
             /\ NamedInfo(raw_parking_data, type, nom) # {})
            => /\ Cardinality(MergedNamed(nom)) = 1
               /\ \A i \in MergedNamed(nom) :
                     HasInfoFields(Merged[i]) /\ HasDispoFields(Merged[i])

\* C1 amended: whenever an availability entry carrying both its name and its
\* available-spaces field and an info entry of the same kind share a name, the
\* merged output holds one record of that name per info entry of that name
\* (over both kinds, an info entry without a name field being named by the
\* empty text), and each record of that kind and name carries the info
\* fields and the availability fields, the available spaces being those of
\* the last such availability entry.
C1_CombinedRecordPerInfoEntry ==
    pc = "merged" =>
        \A type \in Types, nom \in FeedNames :
            (UsableDispo(raw_parking_data, type, nom) # {}
             /\ NamedInfo(raw_parking_data, type, nom) # {})
            => /\ Cardinality(MergedNamed(nom))
                    = Cardinality(NamedInfo(raw_parking_data, TypePublic, nom))
                      + Cardinality(NamedInfo(raw_parking_data, TypeRelais, nom))
               /\ \A i \in MergedNamed(nom) :
                     Merged[i].type = type =>
                        /\ HasInfoFields(Merged[i])
                        /\ HasDispoFields(Merged[i])
                        /\ LET feed == raw_parking_data[DispoFeedKey(type)]
                               last == Max(UsableDispo(raw_parking_data, type, nom))
                           IN  Merged[i]["disponibilite"].places_disponibles
                                  = feed[last][DispoPlacesField(type)]

\* a merge in which two availability entries and one info entry share a name
\* and the single record of that name carries the availability
C1_Witness ==
    /\ pc = "merged"
    /\ Cardinality(UsableDispo(raw_parking_data, TypePublic, ParkingGare)) = 2
    /\ Cardinality(NamedInfo(raw_parking_data, TypePublic, ParkingGare)) = 1
    /\ \E i \in 1..Len(Merged) :
          /\ Merged[i].nom = ParkingGare
          /\ HasDispoFields(Merged[i])
          /\ MergedNamed(ParkingGare) = {i}

\* C2: an availability entry that matches no info entry of its kind, or lacks
\* its name or its available-spaces field, is no merged record and gives no
\* merged record its availability: the merged records are the info entries,
\* in order, and each availability block present is that of an availability
\* entry of the record's kind and name carrying both fields.
C2_UnmatchedOrMalformedDropped ==
    pc = "merged" =>
        LET pi == raw_parking_data["parkings_infos"]
            ri == raw_parking_data["parcs_relais_infos"]
        IN  /\ Len(Merged) = Len(pi) + Len(ri)
            /\ \A i \in 1..Len(Merged) :
                  LET type == IF i <= Len(pi) THEN TypePublic ELSE TypeRelais
                      item == IF i <= Len(pi) THEN pi[i] ELSE ri[i - Len(pi)]
                  IN  /\ Merged[i].type = type
                      /\ Merged[i].nom = (IF InfoNameField(type) \in DOMAIN item
                                          THEN item[InfoNameField(type)] ELSE <<>>)
                      /\ "disponibilite" \in DOMAIN Merged[i] =>
                            \E j \in UsableDispo(raw_parking_data, type, Merged[i].nom) :
                                Merged[i]["disponibilite"].places_disponibles
                                   = raw_parking_data[DispoFeedKey(type)][j][DispoPlacesField(type)]

\* a merge of an unmatched availability entry, an availability entry lacking
\* its available-spaces field and an info entry of that entry's name
C2_Witness ==
    /\ pc = "merged"
    /\ UsableDispo(raw_parking_data, TypePublic, ParkingCommerce) # {}
    /\ NamedInfo(raw_parking_data, TypePublic, ParkingCommerce) = {}
    /\ NamedDispo(raw_parking_data, TypePublic, ParkingGare) # {}
    /\ UsableDispo(raw_parking_data, TypePublic, ParkingGare) = {}
    /\ NamedInfo(raw_parking_data, TypePublic, ParkingGare) # {}
    /\ Len(Merged) = 1
    /\ "disponibilite" \notin DOMAIN Merged[1]

-----------------------------------------------------------------------------
(* Vocabulary of the properties of the search *)

\* the query is a substring of the field, letter case apart
FieldHolds(rec, field, q) ==
    rec[field] # Null /\ Contains(Lower(rec[field]), Lower(q))

\* the record matches the query by name, address or kind
RecordMatches(rec, q) ==
    \/ FieldHolds(rec, "nom", q)
    \/ FieldHolds(rec, "adresse", q)
    \/ FieldHolds(rec, "type", q)

Places(rec) == rec["disponibilite"].places_disponibles

\* the comparison cannot be made: a null name, or a null address where the
\* name does not already match
Uncomparable(rec, q) ==
    \/ rec.nom = Null
    \/ ~FieldHolds(rec, "nom", q) /\ rec.adresse = Null

\* the places in the list of the records matching, and of those with spaces
Matching(recs, q) == {i \in 1..Len(recs) : RecordMatches(recs[i], q)}
NonzeroPlaces(recs) ==
    {i \in 1..Len(recs) : "disponibilite" \in DOMAIN recs[i] /\ Places(recs[i]) # 0}
PositivePlaces(recs) ==
    {i \in 1..Len(recs) : "disponibilite" \in DOMAIN recs[i] /\ Places(recs[i]) > 0}

\* the k-th smallest member of a set of places
Nth(S, k) == CHOOSE i \in S : Cardinality({j \in S : j < i}) = k - 1

\* the result shows exactly the records at the places S, in the order of the list
ShowsAll(result, recs, S) ==
    /\ result.kind = "markdown"
    /\ Len(result.blocks) = Cardinality(S)
    /\ \A k \in 1..Cardinality(S) : result.blocks[k] = FormatParking(recs[Nth(S, k)])

\* the result shows the first five of the records at the places S
ShowsFirstFive(result, recs, S) ==
    /\ result.kind = "markdown"
    /\ Len(result.blocks) = Min(5, Cardinality(S))
    /\ \A k \in 1..Len(result.blocks) : result.blocks[k] = FormatParking(recs[Nth(S, k)])

Shown(result, rec) ==
    /\ result.kind = "markdown"
    /\ \E k \in 1..Len(result.blocks) : result.blocks[k] = FormatParking(rec)

IsNoResults(result) ==
    /\ result.kind = "text"
    /\ result.text \in {"Aucun parking trouve",
                        "Aucune donnee de parking disponible pour la recherche."}

IsSearchError(result) ==
    result.kind = "text" /\ result.text = "Erreur lors de la recherche"

\* C3 as stated: every record the query matches is in the result; when none
\* matches, the result is the records with nonzero available spaces, or a
\* "no results" message when there are none either.
C3_SearchAsStated ==
    (pc = "searched" /\ parking_data.kind = "json") =>
        LET recs == parking_data.doc
            hits == Matching(recs, user_input)
        IN  /\ \A i \in hits : Shown(ai_response, recs[i])
            /\ hits = {} =>
                  IF NonzeroPlaces(recs) # {}
                  THEN ShowsAll(ai_response, recs, NonzeroPlaces(recs))
                  ELSE IsNoResults(ai_response)

\* What the search returns, case by case (checked under SpecSearch): when the
\* data is no record list, or a record cannot be compared, the search error
\* message; otherwise the first five records matching the query, in the order
\* of the list; when none matches, the first five records with a positive
\* number of available spaces; when there are none, the "no results" message
\* (the "no data" message for an empty list).
FallbackSearchResult ==
    pc = "searched" =>
        IF parking_data.kind # "json" THEN IsSearchError(ai_response)
        ELSE LET recs == parking_data.doc
                 hits == Matching(recs, user_input)
                 free == PositivePlaces(recs)
             IN  IF recs = <<>>
                 THEN ai_response.kind = "text"
                      /\ ai_response.text
                           = "Aucune donnee de parking disponible pour la recherche."
                 ELSE IF \E i \in 1..Len(recs) : Uncomparable(recs[i], user_input)
                 THEN IsSearchError(ai_response)
                 ELSE IF hits # {} THEN ShowsFirstFive(ai_response, recs, hits)
                 ELSE IF free # {} THEN ShowsFirstFive(ai_response, recs, free)
                 ELSE ai_response.kind = "text"
                      /\ ai_response.text = "Aucun parking trouve"
                      /\ ai_response.query = Lower(user_input)

\* C4: when at least one record matches the query, the result holds matching
\* records only: each block shown is the text of a record of the list, and of
\* no record that the query does not match; the result is a list of blocks
\* unless a record could not be compared.
C4_OnlyMatchingRecords ==
    (pc = "searched" /\ parking_data.kind = "json"
     /\ Matching(parking_data.doc, user_input) # {}) =>
        LET recs == parking_data.doc
        IN  IF ai_response.kind = "markdown"
            THEN /\ ai_response.blocks # <<>>
                 /\ \A k \in 1..Len(ai_response.blocks) :
                       /\ \E i \in 1..Len(recs) :
                             ai_response.blocks[k] = FormatParking(recs[i])
                       /\ \A i \in 1..Len(recs) :
                             ai_response.blocks[k] = FormatParking(recs[i])
                                => RecordMatches(recs[i], user_input)
            ELSE /\ IsSearchError(ai_response)
                 /\ \E i \in 1..Len(recs) : Uncomparable(recs[i], user_input)

\* query "gare" over "Parking Gare" and "Parking Commerce", the latter with
\* available spaces: only "Parking Gare" is shown
C4_Witness ==
    /\ pc = "searched"
    /\ user_input = <<"g","a","r","e">>
    /\ parking_data.kind = "json"
    /\ Len(parking_data.doc) = 2
    /\ parking_data.doc[1].nom = ParkingGare
    /\ parking_data.doc[2].nom = ParkingCommerce
    /\ "disponibilite" \in DOMAIN parking_data.doc[2]
    /\ Places(parking_data.doc[2]) > 0
    /\ ai_response.kind = "markdown"
    /\ ai_response.blocks = <<FormatParking(parking_data.doc[1])>>

-----------------------------------------------------------------------------
(* Properties of the session *)

IsPrefix(a, b) == Len(a) <= Len(b) /\ SubSeq(b, 1, Len(a)) = a

RemoteFailures == {"exception", "http_error", "empty_content"}

\* With a key configured, every failure of the POST ends in the value of
\* fallback_search on the same query and data (checked under Spec).
FallbackOnRemoteFailure ==
    (pc = "sidebar" /\ remote \in RemoteFailures) =>
        ai_response = fallback_search(user_input, parking_data)

\* C5 as stated: whenever the remote call yields no answer, the case of no
\* key to call it with included, the value returned is that of
\* fallback_search on the same query and the same data.
C5_FallbackWheneverNoAnswer ==
    (pc = "sidebar" /\ remote \in RemoteFailures \cup {"no_key"}) =>
        ai_response = fallback_search(user_input, parking_data)

\* C6 as stated: the message list before a step is a prefix of the list after it.
C6_AppendOnly == [][IsPrefix(messages, messages')]_vars

\* C6 amended: the message list before a step is a prefix of the list after
\* it, except for the step of the "Effacer la conversation" press, which
\* replaces the list by the single cleared-conversation notice.
C6_AppendOnlyUntilCleared ==
    [][\/ IsPrefix(messages, messages')
       \/ /\ pc = "sidebar"
          /\ trigger = "clear"
          /\ messages' = <<[role |-> "assistant", content |-> ClearedNotice]>>]_vars

\* a conversation cleared and then continued
C6_Witness ==
    /\ pc = "idle"
    /\ Len(messages) >= 3
    /\ messages[1].content = ClearedNotice

\* C7: the data loading block refetches every feed and replaces parking_data,
\* raw_parking_data and last_update, before the input is answered, when there
\* is no cached data or it is older than 300 seconds; otherwise it requests
\* nothing and leaves them as they are, and so does the rest of the execution
\* unless the refresh button is pressed.
C7_Freshness ==
    [][/\ pc = "load" =>
            IF \/ "last_update" \notin session_keys
               \/ "parking_data" \notin session_keys
               \/ now - last_update > 300
            THEN /\ gets' = ApiKeys
                 /\ last_update' = now
                 /\ {"parking_data", "raw_parking_data", "last_update"} \subseteq session_keys'
                 /\ DOMAIN raw_parking_data' = ApiKeys
                 /\ parking_data' = prepare_parking_data(raw_parking_data')
                 /\ messages' = messages
                 /\ pc' = "input"
            ELSE /\ gets' = {}
                 /\ UNCHANGED <<parking_data, raw_parking_data, last_update>>
       /\ (pc = "input" \/ (pc = "sidebar" /\ trigger # "refresh")) =>
            /\ gets' \subseteq gets
            /\ UNCHANGED <<parking_data, raw_parking_data, last_update>>]_vars

\* an input arriving when the cached data is older than 300 seconds: the feeds
\* have been refetched when the input is about to be answered
C7_Witness ==
    /\ pc = "input"
    /\ trigger = "input"
    /\ gets = ApiKeys
    /\ last_update = now
    /\ now > 300

\* C8 as stated: last_update is the time of the most recent fetch in which the
\* feeds were retrieved; a fetch that fails does not advance it.
C8_LastSuccessfulFetch ==
    "last_update" \in session_keys =>
        last_success.some /\ last_update = last_success.at

\* C9: the messages posted are the last min(10, len) messages of the history
\* handed to ask_claude (the session list, which already ends with the new
\* question), in order and with their roles, then one user message holding
\* the query; at most 11 messages, the last one the query.
C9_RequestWindow ==
    (pc = "sidebar" /\ remote \in RemoteFailures \cup {"answer"}) =>
        LET history == SubSeq(messages, 1, Len(messages) - 1)
            m == IF Len(history) < 10 THEN Len(history) ELSE 10
        IN  /\ Len(request) = m + 1
            /\ Len(request) <= 11
            /\ \A i \in 1..m :
                  /\ request[i].role = history[Len(history) - m + i].role
                  /\ request[i].content = history[Len(history) - m + i].content
            /\ request[m + 1].role = "user"
            /\ request[m + 1].content.chars = user_input

\* a question asked when the history holds more than ten messages
C9_Witness ==
    /\ pc = "sidebar"
    /\ remote = "answer"
    /\ Len(messages) = 13
    /\ Len(request) = 11
    /\ request[1] = messages[3]

\* C10: at the end of an execution the message list is not empty, starts with
\* the greeting or the cleared-conversation notice, and alternates assistant,
\* user, assistant, ..., ending with an assistant message.
C10_ConversationShape ==
    (pc \in {"idle", "rerun"} /\ "messages" \in session_keys) =>
        /\ Len(messages) >= 1
        /\ Len(messages) % 2 = 1
        /\ messages[1].content \in {Greeting, ClearedNotice}
        /\ \A i \in 1..Len(messages) :
              messages[i].role = IF i % 2 = 1 THEN "assistant" ELSE "user"

\* the end of an execution that answered a question after a clear
C10_Witness ==
    /\ pc = "idle"
    /\ "messages" \in session_keys
    /\ Len(messages) >= 5
    /\ messages[1].content = ClearedNotice
    /\ messages[Len(messages) - 1].role = "user"
    /\ messages[Len(messages)].role = "assistant"

====
